---- MODULE Spec2Model ----
(***************************************************************************)
(* pet-input-server (src/src/main.rs): a capture thread translates raw     *)
(* rdev input events into Actions, throttles mouse moves, and publishes    *)
(* them on a tokio broadcast channel; the accept loop subscribes one       *)
(* receiver per WebSocket client and a task per client forwards every      *)
(* received Action as a JSON text frame.                                   *)
(*                                                                         *)
(* Time is in milliseconds.  One event_callback invocation is one step     *)
(* taken at the instant `now` (the Lazy initialiser, elapsed() and the     *)
(* second Instant::now() of one callback fall into the same millisecond).  *)
(***************************************************************************)
EXTENDS Integers, Sequences, FiniteSets, TLC

(***************************************************************************)
(* Bounds of the model.                                                    *)
(***************************************************************************)
\* channel capacity handed to broadcast::channel; stands for the program's 1024
Capacity == 2
\* number of client connections the accept loop takes
MaxSessions == 2
\* number of Actions published in the delivery specification
MaxPublish == 3
\* number of Actions published in the capture specifications
MaxCapturePublish == 4
\* number of Actions published in the translation specification
MaxTranslatePublish == 2
\* the clock stops advancing here
MaxTime == 36

(***************************************************************************)
(* Program constants.                                                      *)
(***************************************************************************)
\* const MOUSE_MOVE_THROTTLE: Duration = Duration::from_millis(16)
MOUSE_MOVE_THROTTLE == 16
\* broadcast::channel::<Action>(1024)
CHANNEL_CAPACITY == 1024

(***************************************************************************)
(* Option<T>.                                                              *)
(***************************************************************************)
None == [some |-> FALSE]
Some(v) == [some |-> TRUE, val |-> v]

(***************************************************************************)
(* rdev::Key, rdev::Button and rdev::EventType values.                     *)
(***************************************************************************)
Key(name) == [name |-> name, code |-> 0]
UnknownKey(code) == [name |-> "Unknown", code |-> code]
Button(name) == [name |-> name, code |-> 0]
UnknownButton(code) == [name |-> "Unknown", code |-> code]

MouseMoveEv(x, y) == [type |-> "MouseMove", x |-> x, y |-> y]
ButtonPressEv(b) == [type |-> "ButtonPress", button |-> b]
ButtonReleaseEv(b) == [type |-> "ButtonRelease", button |-> b]
KeyPressEv(k) == [type |-> "KeyPress", key |-> k]
KeyReleaseEv(k) == [type |-> "KeyRelease", key |-> k]
WheelEv == [type |-> "Wheel"]

(***************************************************************************)
(* The protocol: Action { kind, value }, ActionValue::{String, Coords}.    *)
(***************************************************************************)
ValueString(s) == [tag |-> "String", s |-> s]
\* coordinates published as text
ValueCoordsAsText(x, y) == [tag |-> "String", s |-> ToString(x)]

\* coordinates published with the axes exchanged
ValueCoordsSwapped(x, y) == [tag |-> "Coords", x |-> y, y |-> x]

ValueCoords(x, y) == [tag |-> "Coords", x |-> x, y |-> y]
Action(kind, value) == [kind |-> kind, value |-> value]

\* serde_json::to_string(&action): ActionValue is #[serde(untagged)], so the
\* variant tag is not written; an f64 coordinate is printed with its fraction.
\* The JSON text is kept as its sequence of tokens.
F64ToJson(n) == ToString(n) \o ".0"

ToJson(action) ==
    IF action.value.tag = "String"
    THEN <<"kind", action.kind, "value", action.value.s>>
    ELSE <<"kind", action.kind, "value",
           "x", F64ToJson(action.value.x), "y", F64ToJson(action.value.y)>>

(***************************************************************************)
(* Key and button mapping.                                                 *)
(***************************************************************************)
map_button(button) ==
    CASE button.name = "Left" -> "Mouse1"
      [] button.name = "Right" -> "Mouse2"
      [] button.name = "Middle" -> "Mouse3"
      [] button.name = "Unknown" -> "Mouse" \o ToString(button.code)

KEY_MAP ==
    [Space |-> "Space", Alt |-> "Alt", AltGr |-> "Alt",
     ControlLeft |-> "Control", ControlRight |-> "Control",
     ShiftLeft |-> "Shift", ShiftRight |-> "Shift",
     MetaLeft |-> "Meta", MetaRight |-> "Meta", Escape |-> "Escape",
     F1 |-> "F1", F2 |-> "F2", F3 |-> "F3", F4 |-> "F4", F5 |-> "F5",
     F6 |-> "F6", F7 |-> "F7", F8 |-> "F8", F9 |-> "F9", F10 |-> "F10",
     F11 |-> "F11", F12 |-> "F12",
     Tab |-> "Tab", Return |-> "Return", Backspace |-> "Backspace",
     CapsLock |-> "CapsLock", Insert |-> "Insert", Delete |-> "Delete",
     Home |-> "Home", End |-> "End", PageUp |-> "PageUp",
     PageDown |-> "PageDown", UpArrow |-> "UpArrow",
     DownArrow |-> "DownArrow", LeftArrow |-> "LeftArrow",
     RightArrow |-> "RightArrow",
     KeyQ |-> "KeyQ", KeyW |-> "KeyW", KeyE |-> "KeyE", KeyR |-> "KeyR",
     KeyT |-> "KeyT", KeyY |-> "KeyY", KeyU |-> "KeyU", KeyI |-> "KeyI",
     KeyO |-> "KeyO", KeyP |-> "KeyP", KeyA |-> "KeyA", KeyS |-> "KeyS",
     KeyD |-> "KeyD", KeyF |-> "KeyF", KeyG |-> "KeyG", KeyH |-> "KeyH",
     KeyJ |-> "KeyJ", KeyK |-> "KeyK", KeyL |-> "KeyL", KeyZ |-> "KeyZ",
     KeyX |-> "KeyX", KeyC |-> "KeyC", KeyV |-> "KeyV", KeyB |-> "KeyB",
     KeyN |-> "KeyN", KeyM |-> "KeyM",
     Num1 |-> "Num1", Num2 |-> "Num2", Num3 |-> "Num3", Num4 |-> "Num4",
     Num5 |-> "Num5", Num6 |-> "Num6", Num7 |-> "Num7", Num8 |-> "Num8",
     Num9 |-> "Num9", Num0 |-> "Num0",
     Kp0 |-> "Num0", Kp1 |-> "Num1", Kp2 |-> "Num2", Kp3 |-> "Num3",
     Kp4 |-> "Num4", Kp5 |-> "Num5", Kp6 |-> "Num6", Kp7 |-> "Num7",
     Kp8 |-> "Num8", Kp9 |-> "Num9"]

\* the match on the raw code of Key::Unknown
UnknownKeyCodes ==
    [c \in {188, 190, 191, 186, 222, 219, 221, 220, 189, 187} |->
        CASE c = 188 -> ","
          [] c = 190 -> "."
          [] c = 191 -> "/"
          [] c = 186 -> ";"
          [] c = 222 -> "'"
          [] c = 219 -> "["
          [] c = 221 -> "]"
          [] c = 220 -> "\\"
          [] c = 189 -> "-"
          [] c = 187 -> "="]

\* a fallback that names every key it does not know
map_keyNamesEveryKey(key) ==
    IF key.name \in DOMAIN KEY_MAP
    THEN Some(KEY_MAP[key.name])
    ELSE Some(key.name)

map_key(key) ==
    IF key.name \in DOMAIN KEY_MAP
    THEN Some(KEY_MAP[key.name])
    ELSE IF key.name = "Unknown"
         THEN IF key.code \in DOMAIN UnknownKeyCodes
              THEN Some(UnknownKeyCodes[key.code])
              ELSE None
         ELSE None

(***************************************************************************)
(* The throttle state: static LAST_MOUSE_MOVE: Lazy<Mutex<Instant>>.       *)
(* A Lazy runs its initialiser at the first dereference, not at program    *)
(* start; Uninit is the state before that.                                 *)
(***************************************************************************)
Uninit == 0 - 1

\* Lazy::force: the first dereference stores Instant::now()
LazyForce(last, t) == IF last = Uninit THEN t ELSE last

\* Instant::elapsed at time t
Elapsed(last, t) == t - last

\* last_move.elapsed() >= MOUSE_MOVE_THROTTLE
ThrottleElapsed(last, t) == Elapsed(last, t) >= MOUSE_MOVE_THROTTLE

\* an accepting branch that forgets to store the new time
AcceptedAtStale(last, t) == last

\* *last_move = Instant::now() in the accepting branch
AcceptedAt(last, t) == t

(***************************************************************************)
(* The translation of event_callback: the Action, if any, and the throttle *)
(* state it leaves.                                                        *)
(***************************************************************************)
Translate(ev, last, t) ==
    CASE ev.type = "MouseMove" ->
            LET forced == LazyForce(last, t) IN
            IF ThrottleElapsed(forced, t)
            THEN [action |-> Some(Action("MouseMove", ValueCoords(ev.x, ev.y))),
                  last |-> AcceptedAt(forced, t)]
            ELSE [action |-> None, last |-> forced]
      [] ev.type = "ButtonPress" ->
            [action |-> Some(Action("MousePress",
                                    ValueString(map_button(ev.button)))),
             last |-> last]
      [] ev.type = "ButtonRelease" ->
            [action |-> Some(Action("MouseRelease",
                                    ValueString(map_button(ev.button)))),
             last |-> last]
      [] ev.type = "KeyPress" ->
            LET m == map_key(ev.key) IN
            [action |-> IF m.some
                        THEN Some(Action("KeyboardPress", ValueString(m.val)))
                        ELSE None,
             last |-> last]
      [] ev.type = "KeyRelease" ->
            LET m == map_key(ev.key) IN
            [action |-> IF m.some
                        THEN Some(Action("KeyboardRelease", ValueString(m.val)))
                        ELSE None,
             last |-> last]
      [] OTHER -> [action |-> None, last |-> last]

(***************************************************************************)
(* tokio::sync::broadcast as the program uses it: a ring of slots, each    *)
(* holding the position it was written for; the sender's tail position;    *)
(* one read position per receiver.                                         *)
(***************************************************************************)
RECURSIVE PowerOfTwoFrom(_, _)
PowerOfTwoFrom(p, n) == IF p >= n THEN p ELSE PowerOfTwoFrom(2 * p, n)

\* broadcast::channel rounds the capacity up to a power of two
NextPowerOfTwo(n) == PowerOfTwoFrom(1, n)

BufLen == NextPowerOfTwo(Capacity)

\* (pos & mask): the slot a position is stored in
SlotIndex(pos) == pos % BufLen

\* channel(): slot i starts as if written BufLen positions ago, with no value
NewBuffer == [i \in 0 .. BufLen - 1 |-> [pos |-> i - BufLen, val |-> None]]

\* a bounded queue with back-pressure would wait for the slowest receiver
SendReadyWhenDrained(tail, nexts) == \A n \in nexts : tail - n < BufLen

\* Sender::send never waits for a receiver: it is a plain (non-async) call
SendReady(tail, nexts) == TRUE

\* a send that also keeps the overwritten history
SendSlotKeepsHistory(buf, pos, v) ==
    ((BufLen + pos) :> [pos |-> pos, val |-> Some(v)])
        @@ (SlotIndex(pos) :> [pos |-> pos, val |-> Some(v)]) @@ buf

\* Sender::send with at least one receiver alive: overwrite the slot of tail
SendSlot(buf, pos, v) ==
    (SlotIndex(pos) :> [pos |-> pos, val |-> Some(v)]) @@ buf

\* a subscription that starts one Action behind the tail
SubscribeBehind(tail) == IF tail > 0 THEN tail - 1 ELSE 0

\* a subscription that replays what the ring still holds
SubscribeAtOldest(tail) == IF tail > BufLen THEN tail - BufLen ELSE 0

\* Sender::subscribe: the new receiver starts at the tail
SubscribeAt(tail) == tail

\* a recv that hands out the slot without advancing the read position
RecvRefNoAdvance(buf, tail, next) ==
    LET slot == buf[SlotIndex(next)] IN
    IF slot.pos = next
    THEN [tag |-> "Ok", next |-> next, val |-> slot.val, missed |-> 0]
    ELSE [tag |-> "Empty", next |-> next, val |-> None, missed |-> 0]

\* Receiver::recv: one poll of the receiver at position next
RecvRef(buf, tail, next) ==
    LET slot == buf[SlotIndex(next)] IN
    IF slot.pos = next
    THEN [tag |-> "Ok", next |-> next + 1, val |-> slot.val, missed |-> 0]
    ELSE IF slot.pos + BufLen = next
         THEN [tag |-> "Empty", next |-> next, val |-> None, missed |-> 0]
         ELSE LET oldest == tail - BufLen
                  gap == oldest - next
              IN  IF gap = 0
                  THEN [tag |-> "Ok", next |-> next + 1, val |-> slot.val,
                        missed |-> 0]
                  ELSE [tag |-> "Lagged", next |-> oldest, val |-> None,
                        missed |-> gap]

(***************************************************************************)
(* State.                                                                  *)
(***************************************************************************)
Sessions == 1 .. MaxSessions

VARIABLES
    now,              \* the monotonic clock, ms since process start
    last_mouse_move,  \* LAST_MOUSE_MOVE, Uninit before its first dereference
    capture_alive,    \* the rdev::listen thread is delivering events
    running,          \* main's accept loop has not ended
    buffer,           \* the channel's ring of slots
    tail_pos,         \* the channel's tail position: number of Actions sent
    rx_cnt,           \* the channel's count of live receivers
    pc,               \* per connection: where its task stands
    rx_next,          \* per connection: its receiver's read position
    held,             \* per connection: the Action recv returned last
    transport,        \* per connection: "open" or "broken"
    written,          \* per connection: the text frames written to the client
    sub_pos,          \* history: the tail position when the session subscribed
    missed,           \* history: the gap a session's recv reported, 0 if none
    closed_by,        \* history: why the session's task ended
    published,        \* history: every Action passed to send, in order
    last_ev,          \* history: the raw event handled last, whether it gave an
                      \* Action, and how many Actions were published before it
    last_accept,      \* history: when the last MouseMove Action was emitted
    scn               \* history: how many events of Scenario the raw events so
                      \* far are, one for one; ScenarioOff once they differ

captureVars == <<now, last_mouse_move, capture_alive>>
chanVars == <<buffer, tail_pos, rx_cnt>>
sessVars == <<pc, rx_next, held, transport, written>>
sessHist == <<sub_pos, missed, closed_by>>
captHist == <<published, last_ev, last_accept, scn>>
vars == <<captureVars, running, chanVars, sessVars, sessHist, captHist>>

\* the end-to-end scenario: raw events and the times they arrive at
Scenario ==
    <<[ev |-> KeyPressEv(Key("KeyA")), t |-> 0],
      [ev |-> ButtonPressEv(Button("Left")), t |-> 0],
      [ev |-> MouseMoveEv(10, 20), t |-> 0],
      [ev |-> MouseMoveEv(11, 21), t |-> 5],
      [ev |-> MouseMoveEv(12, 22), t |-> 20]>>

ScenarioOff == 0 - 1

ScenarioNext(n, ev, t) ==
    IF n >= 0 /\ n < Len(Scenario)
    THEN IF Scenario[n + 1].t = t /\ Scenario[n + 1].ev = ev
         THEN n + 1
         ELSE ScenarioOff
    ELSE ScenarioOff

NoEvent == [ev |-> [type |-> "None"], emitted |-> FALSE, before |-> 0]

Init ==
    /\ now = 0
    /\ last_mouse_move = Uninit
    /\ capture_alive = TRUE
    /\ running = TRUE
    /\ buffer = NewBuffer
    /\ tail_pos = 0
    /\ rx_cnt = 1
    /\ pc = [s \in Sessions |-> "unborn"]
    /\ rx_next = [s \in Sessions |-> 0]
    /\ held = [s \in Sessions |-> None]
    /\ transport = [s \in Sessions |-> "open"]
    /\ written = [s \in Sessions |-> <<>>]
    /\ sub_pos = [s \in Sessions |-> 0]
    /\ missed = [s \in Sessions |-> 0]
    /\ closed_by = [s \in Sessions |-> "none"]
    /\ published = <<>>
    /\ last_ev = NoEvent
    /\ last_accept = Uninit
    /\ scn = 0

(***************************************************************************)
(* The capture thread.                                                     *)
(***************************************************************************)
\* time passes
Tick(d) ==
    /\ running
    /\ now + d <= MaxTime
    /\ now' = now + d
    /\ UNCHANGED <<last_mouse_move, capture_alive, running, chanVars,
                   sessVars, sessHist, captHist>>

\* the read positions of the receivers held by connection tasks
LiveNexts == {rx_next[s] : s \in {t \in Sessions : pc[t] \in {"handshake", "recv", "send"}}}

\* event_callback(event, &tx_clone): translate, throttle, send
event_callback(ev) ==
    LET r == Translate(ev, last_mouse_move, now) IN
    /\ running
    /\ capture_alive
    /\ last_mouse_move' = r.last
    /\ last_ev' = [ev |-> ev, emitted |-> r.action.some,
                    before |-> Len(published)]
    /\ scn' = ScenarioNext(scn, ev, now)
    /\ IF r.action.some
       THEN /\ SendReady(tail_pos, LiveNexts)
            /\ IF rx_cnt = 0
               THEN UNCHANGED <<buffer, tail_pos>>
               ELSE /\ buffer' = SendSlot(buffer, tail_pos, r.action.val)
                    /\ tail_pos' = tail_pos + 1
            /\ published' = Append(published, r.action.val)
            /\ last_accept' = IF ev.type = "MouseMove" THEN now ELSE last_accept
       ELSE UNCHANGED <<buffer, tail_pos, published, last_accept>>
    /\ UNCHANGED <<now, capture_alive, running, rx_cnt, sessVars, sessHist>>

\* a listener error that brings the whole process down
ListenErrorEndsMain ==
    /\ running
    /\ capture_alive
    /\ capture_alive' = FALSE
    /\ running' = FALSE
    /\ UNCHANGED <<now, last_mouse_move, chanVars, sessVars, sessHist,
                   captHist>>

\* listen(..) returns Err: the capture thread prints the error and ends
ListenError ==
    /\ running
    /\ capture_alive
    /\ capture_alive' = FALSE
    /\ UNCHANGED <<now, last_mouse_move, running, chanVars, sessVars,
                   sessHist, captHist>>

(***************************************************************************)
(* main's accept loop.                                                     *)
(***************************************************************************)
\* connections are numbered in the order they are accepted
NextSession == Cardinality({s \in Sessions : pc[s] # "unborn"}) + 1

\* an accept loop that serves one connection at a time
AcceptWhenIdle ==
    LET s == NextSession IN
    /\ running
    /\ s \in Sessions
    /\ \A t \in Sessions : pc[t] \in {"unborn", "done"}
    /\ pc' = [pc EXCEPT ![s] = "handshake"]
    /\ rx_next' = [rx_next EXCEPT ![s] = SubscribeAt(tail_pos)]
    /\ sub_pos' = [sub_pos EXCEPT ![s] = tail_pos]
    /\ rx_cnt' = rx_cnt + 1
    /\ UNCHANGED <<captureVars, running, buffer, tail_pos, held, transport,
                   written, missed, closed_by, captHist>>

\* listener.accept() returns Ok: subscribe, then spawn handle_connection
Accept ==
    LET s == NextSession IN
    /\ running
    /\ s \in Sessions
    /\ pc' = [pc EXCEPT ![s] = "handshake"]
    /\ rx_next' = [rx_next EXCEPT ![s] = SubscribeAt(tail_pos)]
    /\ sub_pos' = [sub_pos EXCEPT ![s] = tail_pos]
    /\ rx_cnt' = rx_cnt + 1
    /\ UNCHANGED <<captureVars, running, buffer, tail_pos, held, transport,
                   written, missed, closed_by, captHist>>

\* listener.accept() returns Err: `while let Ok(..)` ends, main returns and
\* the process exits with it
AcceptError ==
    /\ running
    /\ running' = FALSE
    /\ UNCHANGED <<captureVars, chanVars, sessVars, sessHist, captHist>>

(***************************************************************************)
(* handle_connection, one task per connection.                             *)
(***************************************************************************)
\* a task that logs its failure and goes back to waiting on the channel
TaskEndsAndRetries(s, why) ==
    /\ pc' = [pc EXCEPT ![s] = "recv"]
    /\ closed_by' = [closed_by EXCEPT ![s] = why]
    /\ rx_cnt' = rx_cnt

\* one task's end taking every other task down with it
TaskEndsAll(s, why) ==
    /\ pc' = [t \in Sessions |-> IF pc[t] = "unborn" THEN pc[t] ELSE "done"]
    /\ closed_by' = [closed_by EXCEPT ![s] = why]
    /\ rx_cnt' = rx_cnt - 1

\* the task returns: its Receiver is dropped
TaskEnds(s, why) ==
    /\ pc' = [pc EXCEPT ![s] = "done"]
    /\ closed_by' = [closed_by EXCEPT ![s] = why]
    /\ rx_cnt' = rx_cnt - 1

\* accept_async(stream) returns Ok
HandshakeOk(s) ==
    /\ running
    /\ pc[s] = "handshake"
    /\ transport[s] = "open"
    /\ pc' = [pc EXCEPT ![s] = "recv"]
    /\ UNCHANGED <<captureVars, running, chanVars, rx_next, held, transport,
                   written, sessHist, captHist>>

\* accept_async(stream) returns Err: print and return
HandshakeErr(s) ==
    /\ running
    /\ pc[s] = "handshake"
    /\ TaskEnds(s, "handshake")
    /\ UNCHANGED <<captureVars, running, buffer, tail_pos, rx_next, held,
                   transport, written, sub_pos, missed, captHist>>

\* a loop that ends at its first completed recv
LoopNeverContinues(r) == FALSE

\* what `while let Ok(action) = broadcast_rx.recv().await` does with a
\* completed recv: the loop body runs on Ok, the loop ends on any Err
LoopContinues(r) == r.tag = "Ok"

\* broadcast_rx.recv().await completes (it stays pending while Empty)
Recv(s) ==
    LET r == RecvRef(buffer, tail_pos, rx_next[s]) IN
    /\ running
    /\ pc[s] = "recv"
    /\ r.tag # "Empty"
    /\ rx_next' = [rx_next EXCEPT ![s] = r.next]
    /\ missed' = [missed EXCEPT ![s] = IF r.missed > 0 THEN r.missed ELSE @]
    /\ IF LoopContinues(r)
       THEN /\ pc' = [pc EXCEPT ![s] = "send"]
            /\ held' = [held EXCEPT ![s] = r.val]
            /\ UNCHANGED <<rx_cnt, closed_by>>
       ELSE /\ TaskEnds(s, "recv")
            /\ UNCHANGED held
    /\ UNCHANGED <<captureVars, running, buffer, tail_pos, transport,
                   written, sub_pos, captHist>>

\* serde_json::to_string, then ws_sender.send(Message::Text(..)).await
Send(s) ==
    /\ running
    /\ pc[s] = "send"
    /\ IF transport[s] = "open"
       THEN /\ written' = [written EXCEPT ![s] = Append(@, ToJson(held[s].val))]
            /\ pc' = [pc EXCEPT ![s] = "recv"]
            /\ UNCHANGED <<rx_cnt, closed_by>>
       ELSE /\ TaskEnds(s, "send")
            /\ UNCHANGED written
    /\ UNCHANGED <<captureVars, running, buffer, tail_pos, rx_next, held,
                   transport, sub_pos, missed, captHist>>

\* the client goes away or the connection fails
TransportBreak(s) ==
    /\ running
    /\ pc[s] \in {"handshake", "recv", "send"}
    /\ transport[s] = "open"
    /\ transport' = [transport EXCEPT ![s] = "broken"]
    /\ UNCHANGED <<captureVars, running, chanVars, pc, rx_next, held,
                   written, sessHist, captHist>>

\* the session states of the specification
State(s) ==
    CASE pc[s] = "unborn" -> "None"
      [] pc[s] = "handshake" -> "Connecting"
      [] pc[s] \in {"recv", "send"} -> "Active"
      [] pc[s] = "done" -> "Closed"

(***************************************************************************)
(* Inputs and specifications.                                              *)
(***************************************************************************)
\* raw events of the delivery specification
DeliveryEvents ==
    {KeyReleaseEv(Key("KeyA")), MouseMoveEv(10, 20), WheelEv}

DeliveryTicks == {MOUSE_MOVE_THROTTLE}

Capture ==
    /\ tail_pos < MaxPublish
    /\ \E ev \in DeliveryEvents : event_callback(ev)

Clock == \E d \in DeliveryTicks : Tick(d)

Next ==
    \/ Clock
    \/ Capture
    \/ ListenError
    \/ Accept
    \/ AcceptError
    \/ \E s \in Sessions : HandshakeOk(s)
    \/ \E s \in Sessions : HandshakeErr(s)
    \/ \E s \in Sessions : Recv(s)
    \/ \E s \in Sessions : Send(s)
    \/ \E s \in Sessions : TransportBreak(s)

Spec == Init /\ [][Next]_vars

\* the tokio runtime polls every task that can make progress: a recv whose
\* slot has been written completes, and so does a send on the transport
LiveSpec ==
    /\ Spec
    /\ \A s \in Sessions : WF_vars(Recv(s)) /\ WF_vars(Send(s))

\* raw events of the capture specification: the scenario's, a key that is
\* in no table and an event class the callback ignores
CaptureEvents ==
    {Scenario[i].ev : i \in 1 .. Len(Scenario)}
        \cup {KeyPressEv(Key("PrintScreen")), WheelEv}

CaptureTicks == {1, 5, 15}

CaptureStep ==
    /\ tail_pos < MaxCapturePublish
    /\ \E ev \in CaptureEvents : event_callback(ev)

CaptureClock == \E d \in CaptureTicks : Tick(d)

NextCapture ==
    \/ CaptureClock
    \/ CaptureStep
    \/ ListenError

SpecCapture == Init /\ [][NextCapture]_vars

\* raw events of the translation specification: modifier keys of both sides,
\* a letter, named keys that are in no table, raw codes listed and unlisted,
\* every button class, a move and an ignored event class
TranslateKeys ==
    {Key("ControlLeft"), Key("ControlRight"), Key("ShiftLeft"),
     Key("ShiftRight"), Key("KeyA"), Key("PrintScreen"), Key("Comma"),
     UnknownKey(188), UnknownKey(999)}

TranslateButtons ==
    {Button("Left"), Button("Right"), Button("Middle"),
     UnknownButton(1), UnknownButton(4)}

TranslateEvents ==
    {KeyPressEv(k) : k \in TranslateKeys}
        \cup {KeyReleaseEv(k) : k \in TranslateKeys}
        \cup {ButtonPressEv(b) : b \in TranslateButtons}
        \cup {ButtonReleaseEv(b) : b \in TranslateButtons}
        \cup {MouseMoveEv(10, 20), WheelEv}

TranslateStep ==
    /\ tail_pos < MaxTranslatePublish
    /\ \E ev \in TranslateEvents : event_callback(ev)

NextTranslate ==
    \/ Clock
    \/ TranslateStep
    \/ ListenError

SpecTranslate == Init /\ [][NextTranslate]_vars

(***************************************************************************)
(* Properties of the delivery side.                                        *)
(***************************************************************************)
Live(s) == pc[s] \in {"handshake", "recv", "send"}

\* the Actions the ring holds
Retained == {i \in DOMAIN buffer : buffer[i].val.some}

\* C1: a session whose recv reported a gap (the channel overwrote Actions it
\* had not read) is not terminated: it stays Active and goes on delivering
\* from the oldest Action still retained.
C1_LaggedSessionStaysActive ==
    \A s \in Sessions :
        missed[s] > 0 =>
            /\ State(s) = "Active"
            /\ pc[s] = "send" => held[s] = buffer[SlotIndex(rx_next[s] - 1)].val

\* the step is a handshake failure, a send failure or a disconnect of a
FailsAt(a) ==
    \/ transport[a] = "open" /\ transport'[a] = "broken"
    \/ /\ pc[a] # "done"
       /\ pc'[a] = "done"
       /\ closed_by'[a] \in {"handshake", "send"}

\* C2: a handshake failure, send failure or disconnect of session a changes
\* only a's state: every other session keeps its task position, receiver,
\* transport and output, the channel keeps its contents and at least one
\* receiver, and the capture thread keeps its state.
C2_FailureIsLocal ==
    [][\A a \in Sessions :
          FailsAt(a) =>
              /\ \A b \in Sessions \ {a} :
                    /\ pc'[b] = pc[b]
                    /\ rx_next'[b] = rx_next[b]
                    /\ held'[b] = held[b]
                    /\ transport'[b] = transport[b]
                    /\ written'[b] = written[b]
                    /\ closed_by'[b] = closed_by[b]
              /\ buffer' = buffer
              /\ tail_pos' = tail_pos
              /\ rx_cnt' >= 1
              /\ UNCHANGED <<captureVars, running, published>>]_vars

\* session 1 has failed on a send while session 2, Active, has written every
\* Action published since it subscribed
C2_Witness ==
    /\ closed_by[1] = "send"
    /\ State(2) = "Active"
    /\ Len(written[2]) > 0
    /\ Len(written[2]) = tail_pos - sub_pos[2]

\* C3: while the process and the capture thread run, the callback can take its
\* step for every raw event, whatever the receivers have or have not read.
C3_ProducerNeverBlocks ==
    (running /\ capture_alive /\ tail_pos < MaxPublish) =>
        \A ev \in DeliveryEvents : ENABLED event_callback(ev)

\* a live session has read nothing of a full ring and the callback is due
C3_Witness ==
    /\ running /\ capture_alive /\ tail_pos < MaxPublish
    /\ \E s \in Sessions : Live(s) /\ tail_pos - rx_next[s] >= BufLen

\* C4: what a session that never fell behind has written is, frame by frame,
\* the encoding of the Actions published from its subscription on, in order.
C4_OrderPreserved ==
    \A s \in Sessions :
        missed[s] = 0 =>
            /\ Len(written[s]) <= Len(published) - sub_pos[s]
            /\ \A i \in 1 .. Len(written[s]) :
                  written[s][i] = ToJson(published[sub_pos[s] + i])

\* a session that subscribed after the first Action has written two different
\* frames
C4_Witness ==
    \E s \in Sessions :
        /\ missed[s] = 0
        /\ sub_pos[s] > 0
        /\ Len(written[s]) >= 2
        /\ written[s][1] # written[s][2]

\* C9: a session never reads below the tail position of its subscription, and
\* every frame it wrote encodes an Action published after it subscribed.
C9_NoReplay ==
    \A s \in Sessions :
        /\ rx_next[s] >= sub_pos[s]
        /\ \A i \in 1 .. Len(written[s]) :
              \E j \in sub_pos[s] + 1 .. Len(published) :
                  written[s][i] = ToJson(published[j])

\* a session subscribed while the ring still held an older Action, and wrote
\* a frame that differs from it
C9_Witness ==
    \E s \in Sessions :
        /\ sub_pos[s] > 0
        /\ Len(written[s]) > 0
        /\ \A i \in 1 .. Len(written[s]) : written[s][i] # ToJson(published[1])

\* C10: the ring never holds more Actions than the channel's capacity, which
\* for the program's 1024 is the number it was created with.
C10_BoundedMemory ==
    /\ Cardinality(Retained) <= BufLen
    /\ BufLen < 2 * Capacity
    /\ NextPowerOfTwo(CHANNEL_CAPACITY) = CHANNEL_CAPACITY

\* the ring is full, has overwritten an Action, and a live session has read
\* nothing since it subscribed
C10_Witness ==
    /\ tail_pos > BufLen
    /\ Cardinality(Retained) = BufLen
    /\ \E s \in Sessions : Live(s) /\ rx_next[s] = sub_pos[s] /\ sub_pos[s] = 0

\* C8: under fair scheduling, every Action published after an Active session
\* subscribed is eventually written to its transport, unless the transport
\* fails, the session falls behind the ring, or the process ends.
C8_DeliveryLiveness ==
    \A s \in Sessions :
        \A k \in 1 .. MaxPublish :
            (State(s) = "Active" /\ sub_pos[s] < k /\ k <= Len(published))
                ~> \/ Len(written[s]) >= k - sub_pos[s]
                   \/ missed[s] > 0
                   \/ transport[s] = "broken"
                   \/ ~running

\* a session that subscribed after the first Action has written all the
\* Actions published since, and there are at least two of them
C8_Witness ==
    \E s \in Sessions :
        /\ State(s) = "Active"
        /\ sub_pos[s] > 0
        /\ transport[s] = "open"
        /\ missed[s] = 0
        /\ Len(published) >= sub_pos[s] + 2
        /\ Len(written[s]) = Len(published) - sub_pos[s]

\* C11: an Active session whose transport has failed moves to Closed also when
\* no further Action is published; so, while the process runs, such a session
\* always has a step of its own to take (a recv that completes or a send).
C11_BrokenSessionCanClose ==
    \A s \in Sessions :
        (running /\ State(s) = "Active" /\ transport[s] = "broken")
            => ENABLED (Recv(s) \/ Send(s))

\* C12: the step in which the listener reports its error changes neither the
\* accept loop nor the channel nor any session; from then on nothing is
\* published, a new connection can still be accepted, and a session can still
\* take in and write the Actions already published.
C12_ListenErrorIsLocal ==
    /\ [][(capture_alive /\ ~capture_alive')
            => UNCHANGED <<running, chanVars, sessVars, sessHist, published>>]_vars
    /\ [][~capture_alive
            => /\ ~capture_alive'
               /\ published' = published
               /\ tail_pos' = tail_pos
               /\ buffer' = buffer]_vars
    /\ []((~capture_alive /\ running)
            => /\ NextSession \in Sessions => ENABLED Accept
               /\ \A s \in Sessions :
                     /\ pc[s] = "send" => ENABLED Send(s)
                     /\ (pc[s] = "recv" /\ rx_next[s] < tail_pos)
                           => ENABLED Recv(s))

\* after the listener's error a session, Active, has written every Action
\* published since it subscribed, and a connection can still be accepted
C12_Witness ==
    /\ ~capture_alive
    /\ running
    /\ NextSession \in Sessions
    /\ \E s \in Sessions :
          /\ State(s) = "Active"
          /\ Len(written[s]) > 0
          /\ Len(written[s]) = tail_pos - sub_pos[s]

\* C13: a publication while no session is subscribed completes the callback
\* and touches nothing but the channel; a session subscribed later starts at
\* the channel's tail of that moment, writes only the Action at its own read
\* position, which lies after its subscription, and writes nothing once
\* closed: so it never delivers that earlier Action.
C13_UnheardPublication ==
    /\ [][(Len(published') = Len(published) + 1 /\ \A s \in Sessions : ~Live(s))
            => /\ last_ev'.emitted
               /\ capture_alive' /\ running'
               /\ rx_cnt' = rx_cnt
               /\ UNCHANGED <<sessVars, sessHist>>]_vars
    /\ [][\A s \in Sessions :
              (pc[s] = "unborn" /\ pc'[s] # "unborn")
                  => /\ sub_pos'[s] = Len(published)
                     /\ rx_next'[s] = Len(published)
                     /\ written'[s] = << >>]_vars
    /\ [][\A s \in Sessions :
              written'[s] # written[s]
                  => /\ Live(s)
                     /\ rx_next[s] > sub_pos[s]
                     /\ rx_next[s] <= Len(published)
                     /\ written'[s] = Append(written[s],
                                             ToJson(published[rx_next[s]]))]_vars

\* Actions were published before the first session subscribed, and that
\* session has written every Action published since, and no more
C13_Witness ==
    /\ sub_pos[1] > 0
    /\ Len(published) > sub_pos[1]
    /\ Len(written[1]) = Len(published) - sub_pos[1]

(***************************************************************************)
(* Properties of the capture side.                                         *)
(***************************************************************************)
MouseMoves == {i \in 1 .. Len(published) : published[i].kind = "MouseMove"}

\* C5: a step that emits a MouseMove Action comes at least 16 ms after the
\* step that emitted the previous one; a MouseMove arriving earlier than that
\* emits nothing.
C5_ThrottleSpacing ==
    [][(/\ Len(published') = Len(published) + 1
        /\ published'[Len(published')].kind = "MouseMove"
        /\ last_accept # Uninit)
          => now - last_accept >= MOUSE_MOVE_THROTTLE]_vars

\* two MouseMove Actions have been emitted
C5_Witness ==
    /\ Cardinality(MouseMoves) >= 2
    /\ last_accept >= 2 * MOUSE_MOVE_THROTTLE

ScenarioActions ==
    <<Action("KeyboardPress", ValueString("KeyA")),
      Action("MousePress", ValueString("Mouse1")),
      Action("MouseMove", ValueCoords(10, 20)),
      Action("MouseMove", ValueCoords(12, 22))>>

\* C6: once the raw events of a fresh process have been exactly those of the
\* scenario, at its times, the published Actions are exactly KeyboardPress
\* "KeyA", MousePress "Mouse1", MouseMove (10,20), MouseMove (12,22).
C6_EndToEndScenario ==
    scn = Len(Scenario) => published = ScenarioActions

\* the raw event handled last published exactly the Action a
Emitted(a) ==
    /\ last_ev.emitted
    /\ Len(published) = last_ev.before + 1
    /\ published[Len(published)] = a

\* the raw event handled last published nothing
Dropped ==
    /\ ~last_ev.emitted
    /\ Len(published) = last_ev.before

\* the key is in neither the named-key table nor the raw-code fallback
InNeitherTier(key) ==
    /\ key.name \notin DOMAIN KEY_MAP
    /\ key.name = "Unknown" => key.code \notin DOMAIN UnknownKeyCodes

\* C7: for a key press and a key release alike, ControlLeft and ControlRight
\* give the token "Control", ShiftLeft and ShiftRight give "Shift", and a key
\* in neither table gives no Action and publishes nothing.
C7_KeySymbolStability ==
    last_ev.ev.type \in {"KeyPress", "KeyRelease"} =>
        LET key == last_ev.ev.key
            kind == IF last_ev.ev.type = "KeyPress"
                    THEN "KeyboardPress"
                    ELSE "KeyboardRelease"
        IN  /\ key.name \in {"ControlLeft", "ControlRight"} =>
                  Emitted(Action(kind, ValueString("Control")))
            /\ key.name \in {"ShiftLeft", "ShiftRight"} =>
                  Emitted(Action(kind, ValueString("Shift")))
            /\ InNeitherTier(key) => Dropped

\* a ControlRight release gave "Control", then a press of an unlisted raw
\* code was handled
C7_Witness ==
    /\ last_ev.ev = KeyPressEv(UnknownKey(999))
    /\ Len(published) = 1
    /\ published[1] = Action("KeyboardRelease", ValueString("Control"))

\* the five kinds of the protocol (Action.kind itself is a free String)
ActionKinds ==
    {"MouseMove", "MousePress", "MouseRelease", "KeyboardPress",
     "KeyboardRelease"}

\* C14: every published Action has one of the five kinds, and its value is a
\* coordinate pair with exactly the fields x and y if the kind is MouseMove
\* and a string otherwise.
C14_ActionShape ==
    \A i \in 1 .. Len(published) :
        LET a == published[i] IN
        /\ a.kind \in ActionKinds
        /\ a.value.tag \in {"Coords", "String"}
        /\ a.value.tag = "Coords" <=> a.kind = "MouseMove"
        /\ a.value.tag = "Coords" => DOMAIN a.value = {"tag", "x", "y"}
        /\ a.value.tag = "String" => DOMAIN a.value = {"tag", "s"}

\* a mouse move and a string-valued Action have both been published
C14_Witness ==
    /\ \E i \in 1 .. Len(published) : published[i].kind = "MouseMove"
    /\ \E i \in 1 .. Len(published) : published[i].kind # "MouseMove"

\* C15: a step that publishes a MouseMove handles a raw mouse move and
\* publishes that event's coordinates; a step that suppresses a mouse move
\* publishes nothing and keeps nothing of it but the throttle's timestamp.
C15_MoveCarriesItsEvent ==
    /\ [][(/\ Len(published') = Len(published) + 1
            /\ published'[Len(published')].kind = "MouseMove")
            => /\ last_ev'.ev.type = "MouseMove"
               /\ last_ev'.before = Len(published)
               /\ published'[Len(published')].value.x = last_ev'.ev.x
               /\ published'[Len(published')].value.y = last_ev'.ev.y]_vars
    /\ [][(last_ev' # last_ev /\ ~last_ev'.emitted)
            => UNCHANGED <<published, chanVars, last_accept>>]_vars
    /\ [][SubSeq(published', 1, Len(published)) = published]_vars

\* the scenario's first two moves were suppressed and its third was published
\* with its own coordinates, the only move published
C15_Witness ==
    /\ scn = Len(Scenario)
    /\ last_ev.ev = MouseMoveEv(12, 22)
    /\ last_ev.emitted
    /\ published[Len(published)].value = [tag |-> "Coords", x |-> 12, y |-> 22]
    /\ \A i \in 1 .. Len(published) - 1 : published[i].kind # "MouseMove"

\* the order of the session states
StateRank(st) ==
    CASE st = "None" -> 0
      [] st = "Connecting" -> 1
      [] st = "Active" -> 2
      [] st = "Closed" -> 3

\* C16: a session has written nothing while Connecting; its state never moves
\* backwards; it writes only in a step that starts and ends Active; once
\* Closed nothing of it changes again; and a failed handshake, recv or send
\* leaves it Closed, so no send follows the first failed one.
C16_SessionLifecycle ==
    /\ [](\A s \in Sessions :
            /\ State(s) \in {"None", "Connecting"} => written[s] = << >>
            /\ closed_by[s] # "none" <=> State(s) = "Closed")
    /\ [][\A s \in Sessions :
            /\ StateRank(State(s)') >= StateRank(State(s))
            /\ StateRank(State(s)') <= StateRank(State(s)) + 1
                  \/ (State(s) = "Connecting" /\ State(s)' = "Closed")
            /\ written'[s] # written[s]
                  => (State(s) = "Active" /\ State(s)' = "Active")
            /\ State(s) = "Closed"
                  => /\ pc'[s] = pc[s]
                     /\ written'[s] = written[s]
                     /\ rx_next'[s] = rx_next[s]
                     /\ held'[s] = held[s]
                     /\ closed_by'[s] = closed_by[s]
            /\ (pc[s] = "send" /\ transport[s] = "broken" /\ pc'[s] # pc[s])
                  => (State(s)' = "Closed" /\ closed_by'[s] = "send")]_vars

\* a session wrote Actions while Active, then a send failed and closed it
C16_Witness ==
    \E s \in Sessions :
        /\ closed_by[s] = "send"
        /\ State(s) = "Closed"
        /\ Len(written[s]) > 0

\* C17: the first MouseMove of a run is published if and only if at least
\* 16 ms have passed since the process started (time 0).
C17_FirstMoveSinceStartup ==
    [][(/\ last_ev' # last_ev
        /\ last_ev'.ev.type = "MouseMove"
        /\ last_mouse_move = Uninit)
        => (last_ev'.emitted <=> now >= MOUSE_MOVE_THROTTLE)]_vars

\* C18: whatever the sessions are doing, the accept loop can take the next
\* connection, a session in its handshake can complete it, a session holding
\* an Action can write it and a session with an unread Action can take it;
\* and the accepting step changes no other session and not the channel's
\* content.
C18_AcceptNotBlocked ==
    /\ [](running =>
            /\ NextSession \in Sessions => ENABLED Accept
            /\ \A s \in Sessions :
                  /\ (pc[s] = "handshake" /\ transport[s] = "open")
                        => ENABLED HandshakeOk(s)
                  /\ pc[s] = "send" => ENABLED Send(s)
                  /\ (pc[s] = "recv" /\ rx_next[s] < tail_pos)
                        => ENABLED Recv(s))
    /\ [][\A s \in Sessions :
            (pc[s] = "unborn" /\ pc'[s] # "unborn")
                => /\ pc'[s] = "handshake"
                   /\ UNCHANGED <<buffer, tail_pos, held, transport, written>>
                   /\ \A t \in Sessions \ {s} :
                         pc'[t] = pc[t] /\ rx_next'[t] = rx_next[t]]_vars

\* the first connection is still in its handshake while the second, accepted
\* after it, is Active and has been delivered an Action
C18_Witness ==
    /\ running
    /\ pc[1] = "handshake"
    /\ State(2) = "Active"
    /\ Len(written[2]) > 0

\* C19: the throttle's timestamp changes only in a step that publishes a
\* MouseMove.
C19_ThrottleFrame ==
    [][last_mouse_move' # last_mouse_move
        => /\ last_ev'.ev.type = "MouseMove"
           /\ last_ev'.emitted
           /\ Len(published') = Len(published) + 1
           /\ published'[Len(published')].kind = "MouseMove"]_vars

\* the token the specification gives a button
ButtonToken(b) ==
    CASE b = Button("Left") -> "Mouse1"
      [] b = Button("Right") -> "Mouse2"
      [] b = Button("Middle") -> "Mouse3"
      [] OTHER -> "Mouse" \o ToString(b.code)

\* C20: a button event publishes exactly one MousePress/MouseRelease with the
\* button's token, and no other button has that token.
C20_ButtonTokens ==
    last_ev.ev.type \in {"ButtonPress", "ButtonRelease"}
        => /\ Emitted(Action(IF last_ev.ev.type = "ButtonPress"
                              THEN "MousePress" ELSE "MouseRelease",
                              ValueString(ButtonToken(last_ev.ev.button))))
           /\ \A b \in TranslateButtons \ {last_ev.ev.button} :
                 map_button(b) # published[Len(published)].value.s

====
